---- MODULE Spec2Model ----
(***************************************************************************)
(* A model of package pomodoro of coffeebeanbot: the Pomodoro timed task   *)
(* (NewPomodoro, Cancel, performPom) and the ChannelPomMap registry        *)
(* (CreateIfEmpty, RemoveIfExists, Count), with its callers.               *)
(*                                                                         *)
(* Every goroutine is a thread of the model: the external callers, and per *)
(* Pomodoro the performPom goroutine and the goroutine that performPom     *)
(* starts for onWorkEnd.  A step of the model is one statement (or one     *)
(* group of statements that touches no shared state) of one goroutine.     *)
(* Durations are not counted: TimerFires(p) is the moment workDuration has *)
(* elapsed, and may come at any time after the timer was made.             *)
(***************************************************************************)
EXTENDS Integers, FiniteSets, Sequences, TLC

\* Bounds of the model.
MaxPoms == 2        \* calls of CreateIfEmpty / NewPomodoro in one run
NumCallers == 2     \* goroutines calling into the package
NumHandlers == 1    \* command handlers of the bot running at the same time

Channels == {"chan1", "chan2"}      \* NotifyInfo.ChannelID values

Poms == 1..MaxPoms
NoPom == 0
\* NotifyInfo: the n-th call passes title n, so no two calls pass the same payload.
Info(ch, n) == [ChannelID |-> ch, Title |-> n]
NoInfo == [ChannelID |-> "", Title |-> 0]

Caller(i) == <<"caller", i>>
EndThread(p) == <<"onWorkEnd", p>>
Callers == {Caller(i) : i \in 1..NumCallers}
Handlers == {Caller(i) : i \in 1..NumHandlers}
EndThreads == {EndThread(p) : p \in Poms}
Threads == Callers \cup EndThreads
NoThread == <<"none", 0>>
AnyCaller == <<"caller", 0>>

\* The bot's metrics and messages before anything was recorded or sent.
NoValue == -1
NoMessage == <<"", "">>

VARIABLES
    \* ChannelPomMap
    mutex,          \* the thread holding m.mutex, or NoThread
    channelToPom,   \* the map: a function from the occupied channels to Poms
    \* Pomodoro p (p is also the identity of the callback given to the call)
    nextPom,        \* the next call of CreateIfEmpty / NewPomodoro
    pomPc,          \* performPom of p: "none", "select", "returned"
    notifyInfo,     \* p.notifyInfo
    onWorkEnd,      \* p.onWorkEnd: "none", "doneInMap" (wrapped) or "callback"
    timerC,         \* workTimer.C of p holds a value: workDuration elapsed
    cancelChan,     \* p.cancelChan: "open" or "closed"
    cancel,         \* p.cancel (sync.Once): TRUE once Do has run
    completed,      \* the flag performPom passed to p.onWorkEnd
    \* goroutines
    pc,             \* where each thread is
    notify,         \* CreateIfEmpty's notify argument
    channel,        \* RemoveIfExists's channel argument
    self,           \* the call (Pomodoro identity) a caller is making
    found,          \* RemoveIfExists's p
    was,            \* wasCreated / wasRemoved
    count,          \* the value Count is returning: len(m.channelToPom)
    \* what has happened (history)
    asked,          \* the notify argument of CreateIfEmpty call p
    created,        \* result of CreateIfEmpty call p: "none", "pending", "true", "false"
    invoked,        \* the calls of the caller's callback of p: <<info, completed>>
    branch,         \* the branches of performPom's select that p took
    removedBy,      \* whose RemoveIfExists deleted p: NoThread, AnyCaller or an EndThread
    closes,         \* how many times p.cancelChan was closed
    cancelCalls,    \* the kinds of calls of p.Cancel() made so far: "first", and
                    \* "repeat" (Cancel had been called before)
    \* the bot (cmd/cbb): its handlers run on the goroutines above
    handler,        \* the bot function a goroutine is running or, for the goroutine
                    \* of a Pomodoro's onWorkEnd, the callback it was given: "none",
                    \* "onCmdStartPom", "onCmdCancelPom", "onPomEnded"
    mChannel,       \* m.ChannelID of the command a handler is serving
    runningPoms,    \* pomodoros_running: the last value given to RecordRunningPoms
    startedPoms,    \* pomodoros_started: the number of calls of RecordStartPom
    discord,        \* the last ChannelMessageSend: <<channel, text>>
    notified        \* the texts onPomEnded has sent for Pomodoro p (history)

pomVars == <<nextPom, pomPc, notifyInfo, onWorkEnd, timerC, cancelChan, cancel, completed>>
thrVars == <<pc, notify, channel, self, found, was, count>>
histVars == <<asked, created, invoked, branch, removedBy, closes, cancelCalls>>
botVars == <<handler, mChannel, runningPoms, startedPoms, discord, notified>>
vars == <<mutex, channelToPom, pomVars, thrVars, histVars, botVars>>

\* The caller that makes the next call. Callers keep nothing between calls, so the
\* idle ones are interchangeable: the one with the least number is taken.
NextCaller(t) ==
    \E i \in 1..NumCallers :
        /\ t = Caller(i)
        /\ pc[t] = "idle"
        /\ \A j \in 1..(i - 1) : pc[Caller(j)] # "idle"

\* The package is used in two ways: Pomodoros are made through a ChannelPomMap
\* (the bot, TestPomMapCreate, TestPomMapRemove) or directly with NewPomodoro,
\* without a map (TestPomodoro, TestPomodoroCancel). A Pomodoro made directly
\* shares nothing with the map (it never touches m.mutex or m.channelToPom), so
\* a run that did both would be a run of each side by side: a run does one.
DirectUse == \E p \in Poms : onWorkEnd[p] = "callback"
MapUse == \E p \in Poms : created[p] # "none"

Init ==
    /\ mutex = NoThread
    /\ channelToPom = << >>
    /\ nextPom = 1
    /\ pomPc = [p \in Poms |-> "none"]
    /\ notifyInfo = [p \in Poms |-> NoInfo]
    /\ onWorkEnd = [p \in Poms |-> "none"]
    /\ timerC = [p \in Poms |-> FALSE]
    /\ cancelChan = [p \in Poms |-> "open"]
    /\ cancel = [p \in Poms |-> FALSE]
    /\ completed = [p \in Poms |-> FALSE]
    /\ pc = [t \in Threads |-> IF t \in Callers THEN "idle" ELSE "unborn"]
    /\ notify = [t \in Threads |-> NoInfo]
    /\ channel = [t \in Threads |-> ""]
    /\ self = [t \in Threads |-> NoPom]
    /\ found = [t \in Threads |-> NoPom]
    /\ was = [t \in Threads |-> FALSE]
    /\ count = [t \in Threads |-> 0]
    /\ asked = [p \in Poms |-> NoInfo]
    /\ created = [p \in Poms |-> "none"]
    /\ invoked = [p \in Poms |-> << >>]
    /\ branch = [p \in Poms |-> {}]
    /\ removedBy = [p \in Poms |-> NoThread]
    /\ closes = [p \in Poms |-> 0]
    /\ cancelCalls = [p \in Poms |-> {}]
    /\ handler = [t \in Threads |-> "none"]
    /\ mChannel = [t \in Threads |-> ""]
    /\ runningPoms = NoValue
    /\ startedPoms = 0
    /\ discord = NoMessage
    /\ notified = [p \in Poms |-> << >>]

(***************************************************************************)
(* sync.Mutex and the map                                                  *)
(***************************************************************************)
\* The bug of an operation that does not take the mutex.
MutexFreeAlways == TRUE

\* m.mutex.Lock() can return: nobody holds the mutex.
MutexFree == mutex = NoThread

\* The bug of a lookup that never finds the channel.
ExistsNever(ch) == FALSE

\* _, exists := m.channelToPom[ch]
Exists(ch) == ch \in DOMAIN channelToPom

\* The bug of a delete that empties the map.
DeleteAll(ch) == << >>

\* The bug of a delete with a key that is not in the map.
DeleteNothing(ch) == channelToPom

\* delete(m.channelToPom, ch)
Delete(ch) == [c \in DOMAIN channelToPom \ {ch} |-> channelToPom[c]]

\* m.channelToPom[ch] = p
Put(ch, p) == [c \in DOMAIN channelToPom \cup {ch} |-> IF c = ch THEN p ELSE channelToPom[c]]

(***************************************************************************)
(* Pomodoro                                                                *)
(***************************************************************************)
\* The bug of a NewPomodoro that leaves notifyInfo at its zero value.
NewPomodoroZeroInfo(p, cb, info) ==
    /\ pomPc' = [pomPc EXCEPT ![p] = "select"]
    /\ notifyInfo' = [notifyInfo EXCEPT ![p] = NoInfo]
    /\ onWorkEnd' = [onWorkEnd EXCEPT ![p] = cb]
    /\ UNCHANGED <<timerC, cancelChan, cancel, completed>>

\* NewPomodoro(workDuration, cb, info): the struct is filled and performPom
\* is started on its own goroutine, which makes the timer and waits in select.
NewPomodoro(p, cb, info) ==
    /\ pomPc' = [pomPc EXCEPT ![p] = "select"]
    /\ notifyInfo' = [notifyInfo EXCEPT ![p] = info]
    /\ onWorkEnd' = [onWorkEnd EXCEPT ![p] = cb]
    /\ UNCHANGED <<timerC, cancelChan, cancel, completed>>

\* The bug of a Cancel without sync.Once: every call closes pom.cancelChan.
CancelNoOnce(p) ==
    /\ cancel' = [cancel EXCEPT ![p] = TRUE]
    /\ cancelChan' = [cancelChan EXCEPT ![p] = "closed"]
    /\ closes' = [closes EXCEPT ![p] = @ + 1]
    /\ cancelCalls' = [cancelCalls EXCEPT ![p] = @ \cup {IF cancel[p] THEN "repeat" ELSE "first"}]

\* pom.Cancel(): pom.cancel.Do(func() { close(pom.cancelChan) })
Cancel(p) ==
    /\ cancel' = [cancel EXCEPT ![p] = TRUE]
    /\ cancelChan' = [cancelChan EXCEPT ![p] = IF cancel[p] THEN @ ELSE "closed"]
    /\ closes' = [closes EXCEPT ![p] = IF cancel[p] THEN @ ELSE @ + 1]
    /\ cancelCalls' = [cancelCalls EXCEPT ![p] = @ \cup {IF cancel[p] THEN "repeat" ELSE "first"}]

\* The timer made by time.NewTimer(pom.workDuration) fires: workDuration has elapsed.
TimerFires(p) ==
    /\ pomPc[p] = "select"
    /\ ~timerC[p]
    /\ timerC' = [timerC EXCEPT ![p] = TRUE]
    /\ UNCHANGED <<mutex, channelToPom, nextPom, pomPc, notifyInfo, onWorkEnd, cancelChan,
                   cancel, completed, thrVars, histVars, botVars>>

\* The bug of a timer that does not wait for workDuration.
CanReceiveTimerAlways(p) == TRUE

\* The cases of performPom's select that can proceed. performPom may come to its
\* select late (the goroutine is only started by NewPomodoro), so both cases can
\* be ready, and then Go takes either one.
CanReceiveTimer(p) == timerC[p]

\* The bug of a select that has no cancel case.
CanReceiveCancelNever(p) == FALSE

CanReceiveCancel(p) == cancelChan[p] = "closed"

\* The bug of passing true in both cases of the select.
GoOnWorkEndTrue(p, flag) ==
    /\ completed' = [completed EXCEPT ![p] = TRUE]
    /\ pc' = [pc EXCEPT ![EndThread(p)] =
                 IF onWorkEnd[p] = "doneInMap" THEN "remove_lock" ELSE "callback"]
    /\ channel' = [channel EXCEPT ![EndThread(p)] = notifyInfo[p].ChannelID]

\* The bug of a CreateIfEmpty that hands the caller's onWorkEnd to NewPomodoro
\* instead of doneInMap: nothing removes the Pomodoro from the map.
GoOnWorkEndUnwrapped(p, flag) ==
    /\ completed' = [completed EXCEPT ![p] = flag]
    /\ pc' = [pc EXCEPT ![EndThread(p)] = "callback"]
    /\ channel' = [channel EXCEPT ![EndThread(p)] = notifyInfo[p].ChannelID]

\* go pom.onWorkEnd(pom.notifyInfo, flag): a new goroutine. When onWorkEnd is
\* doneInMap it starts with m.RemoveIfExists(notif.ChannelID).
GoOnWorkEnd(p, flag) ==
    /\ completed' = [completed EXCEPT ![p] = flag]
    /\ pc' = [pc EXCEPT ![EndThread(p)] =
                 IF onWorkEnd[p] = "doneInMap" THEN "remove_lock" ELSE "callback"]
    /\ channel' = [channel EXCEPT ![EndThread(p)] = notifyInfo[p].ChannelID]

\* The bug of a select inside a loop: performPom waits again.
AfterSelectLoop == "select"

\* What performPom is after a case of its select has run: it returns.
AfterSelect == "returned"

\* performPom, case <-workTimer.C
SelectTimer(p) ==
    /\ pomPc[p] = "select"
    /\ CanReceiveTimer(p)
    /\ GoOnWorkEnd(p, TRUE)
    /\ pomPc' = [pomPc EXCEPT ![p] = AfterSelect]
    /\ branch' = [branch EXCEPT ![p] = @ \cup {"timer"}]
    /\ UNCHANGED <<mutex, channelToPom, nextPom, notifyInfo, onWorkEnd, timerC, cancelChan,
                   cancel, notify, self, found, count, was,
                   asked, created, invoked, removedBy, closes, cancelCalls, botVars>>

\* The bug of a cancel case that is served by a goroutine of its own, which goes
\* on waiting for the cancel signal after the timer case has run.
SelectCancelAfterReturn(p) ==
    /\ pomPc[p] # "none"
    /\ "cancel" \notin branch[p]
    /\ CanReceiveCancel(p)
    /\ GoOnWorkEnd(p, FALSE)
    /\ pomPc' = [pomPc EXCEPT ![p] = AfterSelect]
    /\ branch' = [branch EXCEPT ![p] = @ \cup {"cancel"}]
    /\ UNCHANGED <<mutex, channelToPom, nextPom, notifyInfo, onWorkEnd, timerC, cancelChan,
                   cancel, notify, self, found, count, was,
                   asked, created, invoked, removedBy, closes, cancelCalls, botVars>>

\* performPom, case <-pom.cancelChan (workTimer.Stop() changes nothing we keep)
SelectCancel(p) ==
    /\ pomPc[p] = "select"
    /\ CanReceiveCancel(p)
    /\ GoOnWorkEnd(p, FALSE)
    /\ pomPc' = [pomPc EXCEPT ![p] = AfterSelect]
    /\ branch' = [branch EXCEPT ![p] = @ \cup {"cancel"}]
    /\ UNCHANGED <<mutex, channelToPom, nextPom, notifyInfo, onWorkEnd, timerC, cancelChan,
                   cancel, notify, self, found, count, was,
                   asked, created, invoked, removedBy, closes, cancelCalls, botVars>>

\* The caller's callback of p runs: onWorkEnd(notif, completed) at the end of
\* doneInMap, or p.onWorkEnd itself for a Pomodoro made outside the map.
Callback(p) ==
    /\ pc[EndThread(p)] = "callback"
    /\ invoked' = [invoked EXCEPT ![p] = Append(@, [info |-> notifyInfo[p], completed |-> completed[p]])]
    /\ pc' = [pc EXCEPT ![EndThread(p)] = "finished"]
    /\ UNCHANGED <<mutex, channelToPom, pomVars, notify, channel, self, found, count, was,
                   asked, created, branch, removedBy, closes, cancelCalls, botVars>>

(***************************************************************************)
(* ChannelPomMap.CreateIfEmpty                                             *)
(***************************************************************************)
\* A caller calls m.CreateIfEmpty(duration, onWorkEnd, info), and m.mutex.Lock()
\* returns; wasCreated := false. A call that waits for the mutex has done nothing
\* yet: it is a call that has not started. The callback it passes is known by the
\* number of the call.
CallCreateIfEmpty(t, ch) ==
    /\ NextCaller(t)
    /\ ~DirectUse
    /\ nextPom <= MaxPoms
    /\ MutexFree
    /\ mutex' = t
    /\ self' = [self EXCEPT ![t] = nextPom]
    /\ nextPom' = nextPom + 1
    /\ notify' = [notify EXCEPT ![t] = Info(ch, nextPom)]
    /\ asked' = [asked EXCEPT ![nextPom] = Info(ch, nextPom)]
    /\ created' = [created EXCEPT ![nextPom] = "pending"]
    /\ was' = [was EXCEPT ![t] = FALSE]
    /\ pc' = [pc EXCEPT ![t] = "create_check"]
    /\ UNCHANGED <<channelToPom, pomPc, notifyInfo, onWorkEnd, timerC, cancelChan,
                   cancel, completed, channel, found, count,
                   invoked, branch, removedBy, closes, cancelCalls, botVars>>

\* The bug of making the Pomodoro before looking the channel up.
CreateCheckEager(t) ==
    /\ pc[t] = "create_check"
    /\ NewPomodoro(self[t], "doneInMap", notify[t])
    /\ pc' = [pc EXCEPT ![t] = IF ~Exists(notify[t].ChannelID) THEN "create_insert" ELSE "create_return"]
    /\ UNCHANGED <<mutex, channelToPom, nextPom, notify, channel, self, found, count, was, histVars, botVars>>

\* if _, exists := ...; !exists { doneInMap := ...; NewPomodoro(duration, doneInMap, notify)
CreateCheck(t) ==
    /\ pc[t] = "create_check"
    /\ IF ~Exists(notify[t].ChannelID)
       THEN /\ NewPomodoro(self[t], "doneInMap", notify[t])
            /\ pc' = [pc EXCEPT ![t] = "create_insert"]
       ELSE /\ pc' = [pc EXCEPT ![t] = "create_return"]
            /\ UNCHANGED <<pomPc, notifyInfo, onWorkEnd, timerC, cancelChan, cancel, completed>>
    /\ UNCHANGED <<mutex, channelToPom, nextPom, notify, channel, self, found, count, was, histVars, botVars>>

\* The bug of a Pomodoro with a Start method that CreateIfEmpty calls once the
\* Pomodoro is in the map: performPom is started a second time.
CreateInsertStarts(t) ==
    /\ pc[t] = "create_insert"
    /\ channelToPom' = Put(notify[t].ChannelID, self[t])
    /\ was' = [was EXCEPT ![t] = TRUE]
    /\ pc' = [pc EXCEPT ![t] = "create_return"]
    /\ pomPc' = [pomPc EXCEPT ![self[t]] = "select"]
    /\ UNCHANGED <<mutex, nextPom, notifyInfo, onWorkEnd, timerC, cancelChan, cancel, completed,
                   notify, channel, self, found, count, histVars, botVars>>

\* m.channelToPom[notify.ChannelID] = <the new Pomodoro>; wasCreated = true
CreateInsert(t) ==
    /\ pc[t] = "create_insert"
    /\ channelToPom' = Put(notify[t].ChannelID, self[t])
    /\ was' = [was EXCEPT ![t] = TRUE]
    /\ pc' = [pc EXCEPT ![t] = "create_return"]
    /\ UNCHANGED <<mutex, pomVars, notify, channel, self, found, count, histVars, botVars>>

\* Where CreateIfEmpty returns to: the if of onCmdStartPom, which goes by the
\* value returned, or a caller that does nothing more.
AfterCreate(t) ==
    IF handler[t] = "onCmdStartPom"
    THEN (IF was[t] THEN "start_created" ELSE "start_exists")
    ELSE "idle"

\* The bug of a NewPomodoro that runs performPom itself (no go statement):
\* CreateIfEmpty returns only when the Pomodoro has expired or was cancelled.
CreateReturnWaits(t) ==
    /\ pc[t] = "create_return"
    /\ was[t] => pomPc[self[t]] = "returned"
    /\ mutex' = NoThread
    /\ created' = [created EXCEPT ![self[t]] = IF was[t] THEN "true" ELSE "false"]
    /\ pc' = [pc EXCEPT ![t] = AfterCreate(t)]
    /\ notify' = [notify EXCEPT ![t] = NoInfo]
    /\ self' = [self EXCEPT ![t] = NoPom]
    /\ was' = [was EXCEPT ![t] = FALSE]
    /\ UNCHANGED <<channelToPom, pomVars, channel, found, count, asked, invoked, branch, removedBy, closes, cancelCalls, botVars>>

\* return wasCreated, and the deferred m.mutex.Unlock()
CreateReturn(t) ==
    /\ pc[t] = "create_return"
    /\ mutex' = NoThread
    /\ created' = [created EXCEPT ![self[t]] = IF was[t] THEN "true" ELSE "false"]
    /\ pc' = [pc EXCEPT ![t] = AfterCreate(t)]
    /\ notify' = [notify EXCEPT ![t] = NoInfo]
    /\ self' = [self EXCEPT ![t] = NoPom]
    /\ was' = [was EXCEPT ![t] = FALSE]
    /\ UNCHANGED <<channelToPom, pomVars, channel, found, count, asked, invoked, branch, removedBy, closes, cancelCalls, botVars>>

(***************************************************************************)
(* ChannelPomMap.RemoveIfExists, called by a caller or by doneInMap        *)
(***************************************************************************)
\* A caller calls m.RemoveIfExists(ch), and m.mutex.Lock() returns; wasRemoved := false
CallRemoveIfExists(t, ch) ==
    /\ NextCaller(t)
    /\ MutexFree
    /\ mutex' = t
    /\ channel' = [channel EXCEPT ![t] = ch]
    /\ was' = [was EXCEPT ![t] = FALSE]
    /\ pc' = [pc EXCEPT ![t] = "remove_check"]
    /\ UNCHANGED <<channelToPom, pomVars, notify, self, found, count, histVars, botVars>>

\* The bug of a doneInMap that deletes its channel from the map itself, without
\* the mutex, and goes on to the caller's callback.
DoneInMapNoLock(p) ==
    /\ pc[EndThread(p)] = "remove_lock"
    /\ channelToPom' = Delete(channel[EndThread(p)])
    /\ pc' = [pc EXCEPT ![EndThread(p)] = "callback"]
    /\ UNCHANGED <<mutex, pomVars, notify, channel, self, found, count, was, histVars, botVars>>

\* The bug of a doneInMap that calls onWorkEnd(notif, completed) before
\* m.RemoveIfExists(notif.ChannelID).
DoneInMapCallbackFirst(p) ==
    /\ pc[EndThread(p)] = "remove_lock"
    /\ MutexFree
    /\ mutex' = EndThread(p)
    /\ invoked' = [invoked EXCEPT ![p] = Append(@, [info |-> notifyInfo[p], completed |-> completed[p]])]
    /\ was' = [was EXCEPT ![EndThread(p)] = FALSE]
    /\ pc' = [pc EXCEPT ![EndThread(p)] = "remove_check"]
    /\ UNCHANGED <<channelToPom, pomVars, notify, channel, self, found, count,
                   asked, created, branch, removedBy, closes, cancelCalls, botVars>>

\* doneInMap calls m.RemoveIfExists(notif.ChannelID), and m.mutex.Lock() returns;
\* wasRemoved := false
DoneInMapLock(p) ==
    /\ pc[EndThread(p)] = "remove_lock"
    /\ MutexFree
    /\ mutex' = EndThread(p)
    /\ was' = [was EXCEPT ![EndThread(p)] = FALSE]
    /\ pc' = [pc EXCEPT ![EndThread(p)] = "remove_check"]
    /\ UNCHANGED <<channelToPom, pomVars, notify, channel, self, found, count, histVars, botVars>>

\* The bug of wasRemoved = true put after the if instead of inside it.
RemoveCheckAlwaysTrue(t) ==
    /\ pc[t] = "remove_check"
    /\ IF Exists(channel[t])
       THEN /\ found' = [found EXCEPT ![t] = channelToPom[channel[t]]]
            /\ channelToPom' = Delete(channel[t])
            /\ removedBy' = [removedBy EXCEPT ![channelToPom[channel[t]]] =
                                 IF t \in Callers THEN AnyCaller ELSE t]
            /\ Cancel(channelToPom[channel[t]])
       ELSE UNCHANGED <<found, channelToPom, removedBy, cancel, cancelChan, closes, cancelCalls>>
    /\ was' = [was EXCEPT ![t] = TRUE]
    /\ pc' = [pc EXCEPT ![t] = "remove_return"]
    /\ UNCHANGED <<mutex, nextPom, pomPc, notifyInfo, onWorkEnd, timerC, completed,
                   notify, channel, self, count, asked, created, invoked, branch, botVars>>

\* The bug of a RemoveIfExists that cancels the Pomodoro and leaves it in the map.
RemoveCheckNoDelete(t) ==
    /\ pc[t] = "remove_check"
    /\ IF Exists(channel[t])
       THEN /\ found' = [found EXCEPT ![t] = channelToPom[channel[t]]]
            /\ removedBy' = [removedBy EXCEPT ![channelToPom[channel[t]]] =
                                 IF t \in Callers THEN AnyCaller ELSE t]
            /\ Cancel(channelToPom[channel[t]])
            /\ was' = [was EXCEPT ![t] = TRUE]
            /\ UNCHANGED channelToPom
       ELSE UNCHANGED <<found, channelToPom, removedBy, cancel, cancelChan, closes, cancelCalls, was>>
    /\ pc' = [pc EXCEPT ![t] = "remove_return"]
    /\ UNCHANGED <<mutex, nextPom, pomPc, notifyInfo, onWorkEnd, timerC, completed,
                   notify, channel, self, count, asked, created, invoked, branch, botVars>>

\* if p, exists := m.channelToPom[channel]; exists {
\*     delete(m.channelToPom, channel); p.Cancel(); wasRemoved = true }
RemoveCheck(t) ==
    /\ pc[t] = "remove_check"
    /\ IF Exists(channel[t])
       THEN /\ found' = [found EXCEPT ![t] = channelToPom[channel[t]]]
            /\ channelToPom' = Delete(channel[t])
            /\ removedBy' = [removedBy EXCEPT ![channelToPom[channel[t]]] =
                                 IF t \in Callers THEN AnyCaller ELSE t]
            /\ Cancel(channelToPom[channel[t]])
            /\ was' = [was EXCEPT ![t] = TRUE]
       ELSE UNCHANGED <<found, channelToPom, removedBy, cancel, cancelChan, closes, cancelCalls, was>>
    /\ pc' = [pc EXCEPT ![t] = "remove_return"]
    /\ UNCHANGED <<mutex, nextPom, pomPc, notifyInfo, onWorkEnd, timerC, completed,
                   notify, channel, self, count, asked, created, invoked, branch, botVars>>

\* The bug of "if exists" for "if !exists" in onCmdCancelPom.
AfterRemoveSwapped(t) ==
    IF t \notin Callers THEN "callback"
    ELSE IF handler[t] = "onCmdCancelPom"
         THEN (IF was[t] THEN "cancel_missing" ELSE "cancel_removed")
         ELSE "idle"

\* Where RemoveIfExists returns to: doneInMap, which goes on to its callback, the
\* if of onCmdCancelPom, which goes by the value returned, or a caller that does
\* nothing more.
AfterRemove(t) ==
    IF t \notin Callers THEN "callback"
    ELSE IF handler[t] = "onCmdCancelPom"
         THEN (IF was[t] THEN "cancel_removed" ELSE "cancel_missing")
         ELSE "idle"

\* The bug of a doneInMap that calls onWorkEnd(notif, completed) inside the
\* critical section: the mutex is still held when the callback runs.
RemoveReturnKeepsLock(t) ==
    /\ pc[t] = "remove_return"
    /\ mutex' = IF t \in Callers THEN NoThread ELSE mutex
    /\ pc' = [pc EXCEPT ![t] = AfterRemove(t)]
    /\ channel' = [channel EXCEPT ![t] = ""]
    /\ found' = [found EXCEPT ![t] = NoPom]
    /\ was' = [was EXCEPT ![t] = FALSE]
    /\ UNCHANGED <<channelToPom, pomVars, notify, self, count, histVars, botVars>>

\* return wasRemoved, and the deferred m.mutex.Unlock(). A caller has its answer;
\* doneInMap goes on to onWorkEnd(notif, completed).
RemoveReturn(t) ==
    /\ pc[t] = "remove_return"
    /\ mutex' = NoThread
    /\ pc' = [pc EXCEPT ![t] = AfterRemove(t)]
    /\ channel' = [channel EXCEPT ![t] = ""]
    /\ found' = [found EXCEPT ![t] = NoPom]
    /\ was' = [was EXCEPT ![t] = FALSE]
    /\ UNCHANGED <<channelToPom, pomVars, notify, self, count, histVars, botVars>>

(***************************************************************************)
(* ChannelPomMap.Count                                                     *)
(***************************************************************************)
\* The bug of a Count that reads the map without the mutex.
CallCountNoLock(t) ==
    /\ NextCaller(t)
    /\ count' = [count EXCEPT ![t] = Cardinality(DOMAIN channelToPom)]
    /\ pc' = [pc EXCEPT ![t] = "count_return"]
    /\ UNCHANGED <<mutex, channelToPom, pomVars, notify, channel, self, found, was, histVars, botVars>>

\* A caller calls m.Count(), m.mutex.Lock() returns, and the value of
\* len(m.channelToPom) is taken for the return.
CallCount(t) ==
    /\ NextCaller(t)
    /\ MutexFree
    /\ mutex' = t
    /\ count' = [count EXCEPT ![t] = Cardinality(DOMAIN channelToPom)]
    /\ pc' = [pc EXCEPT ![t] = "count_return"]
    /\ UNCHANGED <<channelToPom, pomVars, notify, channel, self, found, was, histVars, botVars>>

\* the deferred m.mutex.Unlock(), and Count returns the value to its caller: a
\* handler of the bot has it as the argument of RecordRunningPoms
CountReturn(t) ==
    /\ pc[t] = "count_return"
    /\ mutex' = IF mutex = t THEN NoThread ELSE mutex
    /\ pc' = [pc EXCEPT ![t] = IF handler[t] = "none" THEN "idle" ELSE "record_running"]
    /\ count' = [count EXCEPT ![t] = IF handler[t] = "none" THEN 0 ELSE @]
    /\ UNCHANGED <<channelToPom, pomVars, notify, channel, self, found, was, histVars, botVars>>

(***************************************************************************)
(* Pomodoro used without the map, as TestPomodoro and TestPomodoroCancel do *)
(***************************************************************************)
\* pom := NewPomodoro(duration, callback, NotifyInfo{...}) with no channel
CallNewPomodoro(t) ==
    /\ NextCaller(t)
    /\ ~MapUse
    /\ nextPom <= MaxPoms
    /\ nextPom' = nextPom + 1
    /\ NewPomodoro(nextPom, "callback", Info("", nextPom))
    /\ UNCHANGED <<mutex, channelToPom, thrVars, histVars, botVars>>

\* pom.Cancel() on a Pomodoro the caller made itself
CallCancel(t, p) ==
    /\ NextCaller(t)
    /\ onWorkEnd[p] = "callback"
    /\ Cancel(p)
    /\ UNCHANGED <<mutex, channelToPom, nextPom, pomPc, notifyInfo, onWorkEnd, timerC, completed,
                   thrVars, asked, created, invoked, branch, removedBy, botVars>>

Next ==
    \/ \E t \in Callers : \E ch \in Channels : CallCreateIfEmpty(t, ch)
    \/ \E t \in Callers : CreateCheck(t)
    \/ \E t \in Callers : CreateInsert(t)
    \/ \E t \in Callers : CreateReturn(t)
    \/ \E t \in Callers : \E ch \in Channels : CallRemoveIfExists(t, ch)
    \/ \E p \in Poms : DoneInMapLock(p)
    \/ \E t \in Threads : RemoveCheck(t)
    \/ \E t \in Threads : RemoveReturn(t)
    \/ \E t \in Callers : CallCount(t)
    \/ \E t \in Callers : CountReturn(t)
    \/ \E t \in Callers : CallNewPomodoro(t)
    \/ \E t \in Callers : \E p \in Poms : CallCancel(t, p)
    \/ \E p \in Poms : TimerFires(p)
    \/ \E p \in Poms : SelectTimer(p)
    \/ \E p \in Poms : SelectCancel(p)
    \/ \E p \in Poms : Callback(p)

Spec == Init /\ [][Next]_vars

(***************************************************************************)
(* The bot (cmd/cbb): the command handlers and onPomEnded. discordgo runs  *)
(* every handler on a goroutine of its own, so handlers run side by side.  *)
(* A handler is one of the callers; onPomEnded runs on the goroutine that  *)
(* performPom started for onWorkEnd.                                       *)
(***************************************************************************)
\* The texts the bot sends.
MsgStarted == "minutes remaining!"
MsgAlready == "A Pomodoro is already running on this channel."
MsgNoPom == "No Pomodoro running on this channel to cancel."
MsgComplete == "Work cycle complete.  Time for a short break!"
MsgCancelled == "Pomodoro cancelled!"

\* s.ChannelMessageSend(ch, text) / bot.discord.ChannelMessageSend(ch, text)
ChannelMessageSend(ch, text) == discord' = <<ch, text>>

\* onCmdStartPom(s, m, extra) on a channel that s.State.Channel finds: notif is
\* made, bot.poms.CreateIfEmpty(pomDuration, bot.onPomEnded, notif) is called and
\* m.mutex.Lock() returns; wasCreated := false. (When the channel is not found
\* the handler logs and returns: nothing of the state changes.)
OnCmdStartPom(t, ch) ==
    /\ NextCaller(t)
    /\ t \in Handlers
    /\ nextPom <= MaxPoms
    /\ MutexFree
    /\ mutex' = t
    /\ handler' = [handler EXCEPT ![t] = "onCmdStartPom", ![EndThread(nextPom)] = "onPomEnded"]
    /\ mChannel' = [mChannel EXCEPT ![t] = ch]
    /\ self' = [self EXCEPT ![t] = nextPom]
    /\ nextPom' = nextPom + 1
    /\ notify' = [notify EXCEPT ![t] = Info(ch, nextPom)]
    /\ asked' = [asked EXCEPT ![nextPom] = Info(ch, nextPom)]
    /\ created' = [created EXCEPT ![nextPom] = "pending"]
    /\ was' = [was EXCEPT ![t] = FALSE]
    /\ pc' = [pc EXCEPT ![t] = "create_check"]
    /\ UNCHANGED <<channelToPom, pomPc, notifyInfo, onWorkEnd, timerC, cancelChan,
                   cancel, completed, channel, found, count,
                   invoked, branch, removedBy, closes, cancelCalls,
                   runningPoms, startedPoms, discord, notified>>

\* The bug of calling RecordStartPom before the if, for every start command.
StartPomExistsRecords(t) ==
    /\ pc[t] = "start_exists"
    /\ ChannelMessageSend(mChannel[t], MsgAlready)
    /\ startedPoms' = startedPoms + 1
    /\ handler' = [handler EXCEPT ![t] = "none"]
    /\ mChannel' = [mChannel EXCEPT ![t] = ""]
    /\ pc' = [pc EXCEPT ![t] = "idle"]
    /\ UNCHANGED <<mutex, channelToPom, pomVars, notify, channel, self, found, was, count,
                   histVars, runningPoms, notified>>

\* CreateIfEmpty returned false: "A Pomodoro is already running on this channel."
StartPomExists(t) ==
    /\ pc[t] = "start_exists"
    /\ ChannelMessageSend(mChannel[t], MsgAlready)
    /\ handler' = [handler EXCEPT ![t] = "none"]
    /\ mChannel' = [mChannel EXCEPT ![t] = ""]
    /\ pc' = [pc EXCEPT ![t] = "idle"]
    /\ UNCHANGED <<mutex, channelToPom, pomVars, notify, channel, self, found, was, count,
                   histVars, runningPoms, startedPoms, notified>>

\* CreateIfEmpty returned true: the message with the minutes remaining is sent and
\* bot.metrics.RecordStartPom() is called; bot.poms.Count() comes next.
StartPomCreated(t) ==
    /\ pc[t] = "start_created"
    /\ ChannelMessageSend(mChannel[t], MsgStarted)
    /\ startedPoms' = startedPoms + 1
    /\ pc' = [pc EXCEPT ![t] = "count_lock"]
    /\ UNCHANGED <<mutex, channelToPom, pomVars, notify, channel, self, found, was, count,
                   histVars, handler, mChannel, runningPoms, notified>>

\* bot.poms.Count() of a handler: m.mutex.Lock() returns, and the value of
\* len(m.channelToPom) is taken for the return.
HandlerCount(t) ==
    /\ pc[t] = "count_lock"
    /\ MutexFree
    /\ mutex' = t
    /\ count' = [count EXCEPT ![t] = Cardinality(DOMAIN channelToPom)]
    /\ pc' = [pc EXCEPT ![t] = "count_return"]
    /\ UNCHANGED <<channelToPom, pomVars, notify, channel, self, found, was, histVars, botVars>>

\* bot.metrics.RecordRunningPoms(int64(<the value Count returned>)), the last
\* statement of onCmdStartPom and of onPomEnded
RecordRunningPoms(t) ==
    /\ pc[t] = "record_running"
    /\ runningPoms' = count[t]
    /\ count' = [count EXCEPT ![t] = 0]
    /\ handler' = [handler EXCEPT ![t] = "none"]
    /\ mChannel' = [mChannel EXCEPT ![t] = ""]
    /\ pc' = [pc EXCEPT ![t] = IF t \in Callers THEN "idle" ELSE "finished"]
    /\ UNCHANGED <<mutex, channelToPom, pomVars, notify, channel, self, found, was,
                   histVars, startedPoms, discord, notified>>

\* onCmdCancelPom(s, m, extra): bot.poms.RemoveIfExists(m.ChannelID) is called and
\* m.mutex.Lock() returns; wasRemoved := false
OnCmdCancelPom(t, ch) ==
    /\ NextCaller(t)
    /\ t \in Handlers
    /\ MutexFree
    /\ mutex' = t
    /\ handler' = [handler EXCEPT ![t] = "onCmdCancelPom"]
    /\ mChannel' = [mChannel EXCEPT ![t] = ch]
    /\ channel' = [channel EXCEPT ![t] = ch]
    /\ was' = [was EXCEPT ![t] = FALSE]
    /\ pc' = [pc EXCEPT ![t] = "remove_check"]
    /\ UNCHANGED <<channelToPom, pomVars, notify, self, found, count, histVars,
                   runningPoms, startedPoms, discord, notified>>

\* RemoveIfExists returned true: onCmdCancelPom has nothing more to do.
CancelPomRemoved(t) ==
    /\ pc[t] = "cancel_removed"
    /\ handler' = [handler EXCEPT ![t] = "none"]
    /\ mChannel' = [mChannel EXCEPT ![t] = ""]
    /\ pc' = [pc EXCEPT ![t] = "idle"]
    /\ UNCHANGED <<mutex, channelToPom, pomVars, notify, channel, self, found, was, count,
                   histVars, runningPoms, startedPoms, discord, notified>>

\* RemoveIfExists returned false: "No Pomodoro running on this channel to cancel."
CancelPomMissing(t) ==
    /\ pc[t] = "cancel_missing"
    /\ ChannelMessageSend(mChannel[t], MsgNoPom)
    /\ handler' = [handler EXCEPT ![t] = "none"]
    /\ mChannel' = [mChannel EXCEPT ![t] = ""]
    /\ pc' = [pc EXCEPT ![t] = "idle"]
    /\ UNCHANGED <<mutex, channelToPom, pomVars, notify, channel, self, found, was, count,
                   histVars, runningPoms, startedPoms, notified>>

\* onPomEnded(notif, completed), called at the end of doneInMap: the message for
\* completed is sent to notif.ChannelID; bot.poms.Count() comes next.
OnPomEnded(p) ==
    /\ pc[EndThread(p)] = "callback"
    /\ handler[EndThread(p)] = "onPomEnded"
    /\ invoked' = [invoked EXCEPT ![p] = Append(@, [info |-> notifyInfo[p], completed |-> completed[p]])]
    /\ ChannelMessageSend(notifyInfo[p].ChannelID, IF completed[p] THEN MsgComplete ELSE MsgCancelled)
    /\ notified' = [notified EXCEPT ![p] = Append(@, IF completed[p] THEN MsgComplete ELSE MsgCancelled)]
    /\ pc' = [pc EXCEPT ![EndThread(p)] = "count_lock"]
    /\ UNCHANGED <<mutex, channelToPom, pomVars, notify, channel, self, found, count, was,
                   asked, created, branch, removedBy, closes, cancelCalls,
                   handler, mChannel, runningPoms, startedPoms>>

BotNext ==
    \/ \E t \in Callers : \E ch \in Channels : OnCmdStartPom(t, ch)
    \/ \E t \in Callers : CreateCheck(t)
    \/ \E t \in Callers : CreateInsert(t)
    \/ \E t \in Callers : CreateReturn(t)
    \/ \E t \in Callers : StartPomExists(t)
    \/ \E t \in Callers : StartPomCreated(t)
    \/ \E t \in Callers : \E ch \in Channels : OnCmdCancelPom(t, ch)
    \/ \E p \in Poms : DoneInMapLock(p)
    \/ \E t \in Threads : RemoveCheck(t)
    \/ \E t \in Threads : RemoveReturn(t)
    \/ \E t \in Callers : CancelPomRemoved(t)
    \/ \E t \in Callers : CancelPomMissing(t)
    \/ \E p \in Poms : TimerFires(p)
    \/ \E p \in Poms : SelectTimer(p)
    \/ \E p \in Poms : SelectCancel(p)
    \/ \E p \in Poms : OnPomEnded(p)
    \/ \E t \in Threads : HandlerCount(t)
    \/ \E t \in Threads : CountReturn(t)
    \/ \E t \in Threads : RecordRunningPoms(t)

\* The bot: the handlers are the only callers of the map.
BotSpec == Init /\ [][BotNext]_vars

(***************************************************************************)
(* Fairness. The Go scheduler runs every runnable goroutine, so a step that *)
(* stays possible is taken (WF). A goroutine blocked in m.mutex.Lock() is  *)
(* handed the mutex even when others keep taking it (sync.Mutex's          *)
(* starvation mode), which is SF of DoneInMapLock. The timer of a Pomodoro *)
(* that is not cancelled fires; nothing is assumed of the timer of a       *)
(* cancelled one. Callers are free to stop calling.                        *)
(***************************************************************************)
\* The steps of the operations of the map alone: nothing is asked of the timers,
\* of performPom or of the callbacks.
MapFairness ==
    /\ \A p \in Poms : SF_vars(DoneInMapLock(p))
    /\ \A t \in Threads : WF_vars(RemoveCheck(t) \/ RemoveReturn(t))
    /\ \A t \in Callers : WF_vars(CreateCheck(t) \/ CreateInsert(t) \/ CreateReturn(t))
    /\ \A t \in Callers : WF_vars(CountReturn(t))

MapFairSpec == Spec /\ MapFairness

Fairness ==
    /\ MapFairness
    /\ \A p \in Poms : WF_vars(~cancel[p] /\ TimerFires(p))
    /\ \A p \in Poms : WF_vars(SelectTimer(p) \/ SelectCancel(p))
    /\ \A p \in Poms : WF_vars(Callback(p))

FairSpec == Spec /\ Fairness

(***************************************************************************)
(* Vocabulary of the properties                                            *)
(***************************************************************************)
\* The Pomodoros that are in the map.
InMap == {channelToPom[ch] : ch \in DOMAIN channelToPom}
\* p was made by CreateIfEmpty (its NewPomodoro has run).
MadeByCreate(p) == onWorkEnd[p] = "doneInMap"
\* p is live: made by CreateIfEmpty, its timer has not fired, Cancel was not requested.
Live(p) == MadeByCreate(p) /\ ~timerC[p] /\ ~cancel[p]
\* The caller's callback of p has been invoked.
Invoked(p) == Len(invoked[p]) > 0
\* A RemoveIfExists call of a caller has deleted p / has returned true for p.
RemovedByCaller(p) == removedBy[p] = AnyCaller
CallerGotTrue(p) == RemovedByCaller(p) /\ \A t \in Callers : found[t] # p

(***************************************************************************)
(* C1: at every moment and for every channel, the map holds at most one    *)
(* Pomodoro for the channel (no Pomodoro sits under two channels or under  *)
(* a channel that is not its own), and at most one Pomodoro made for the   *)
(* channel by CreateIfEmpty is live.                                       *)
(***************************************************************************)
C1_AtMostOneLivePerChannel ==
    /\ \A ch \in DOMAIN channelToPom :
          /\ ch \in Channels
          /\ channelToPom[ch] \in Poms
          /\ notifyInfo[channelToPom[ch]].ChannelID = ch
    /\ \A ch \in Channels :
          Cardinality({p \in Poms : Live(p) /\ notifyInfo[p].ChannelID = ch}) <= 1

\* A channel that had two Pomodoros made for it, the second one live and in the map.
C1_Witness ==
    \E p, q \in Poms :
        /\ p # q
        /\ MadeByCreate(p) /\ MadeByCreate(q)
        /\ notifyInfo[p].ChannelID = notifyInfo[q].ChannelID
        /\ ~Live(p) /\ Live(q) /\ q \in InMap

(***************************************************************************)
(* C2: the caller's callback of a Pomodoro is invoked at most once, and    *)
(* performPom never takes both the timer branch and the cancel branch.     *)
(***************************************************************************)
C2_CallbackAtMostOnce ==
    \A p \in Poms : Len(invoked[p]) <= 1 /\ Cardinality(branch[p]) <= 1

\* The callback has run for a Pomodoro whose timer fired and that was cancelled too.
C2_Witness ==
    \E p \in Poms : Len(invoked[p]) = 1 /\ timerC[p] /\ cancel[p] /\ MadeByCreate(p)

(***************************************************************************)
(* C3: under the fairness above, every Pomodoro that was started has its   *)
(* caller's callback invoked in the end: after its timer has fired when    *)
(* it is never cancelled, and with no need of the timer when it is         *)
(* cancelled (Fairness asks nothing of the timer of a cancelled one).      *)
(***************************************************************************)
C3_CallbackEventually ==
    \A p \in Poms : (pomPc[p] # "none") ~> Invoked(p)

\* A Pomodoro made by CreateIfEmpty was cancelled and its callback ran though
\* its timer never fired.
C3_Witness ==
    \E p \in Poms :
        /\ MadeByCreate(p) /\ created[p] = "true"
        /\ Invoked(p) /\ ~invoked[p][1].completed /\ ~timerC[p]

(***************************************************************************)
(* C4: completed = true is passed only when the timer had fired, and       *)
(* completed = false only when Cancel had been requested; so a Pomodoro    *)
(* that is never cancelled reports true.                                   *)
(***************************************************************************)
C4_CompletedFlag ==
    \A p \in Poms : \A i \in 1..Len(invoked[p]) :
        /\ invoked[p][i].completed => timerC[p]
        /\ ~invoked[p][i].completed => cancel[p]

\* One callback has reported true and another one false.
C4_Witness ==
    \E p, q \in Poms :
        /\ Invoked(p) /\ invoked[p][1].completed /\ ~cancel[p]
        /\ Invoked(q) /\ ~invoked[q][1].completed /\ ~timerC[q]

(***************************************************************************)
(* C5: of the CreateIfEmpty calls on one channel that have returned, while *)
(* no Pomodoro of that channel was taken out of the map, exactly one       *)
(* returned true.                                                          *)
(***************************************************************************)
C5_ExactlyOneCreateWins ==
    \A ch \in Channels :
        LET calls == {p \in Poms : asked[p].ChannelID = ch}
            done == {p \in calls : created[p] \in {"true", "false"}}
        IN  (done # {} /\ \A p \in calls : removedBy[p] = NoThread)
                => Cardinality({p \in done : created[p] = "true"}) = 1

\* Two calls on one channel have returned, one true and one false, nothing removed.
C5_Witness ==
    \E p, q \in Poms :
        /\ asked[p].ChannelID = asked[q].ChannelID
        /\ created[p] = "true" /\ created[q] = "false"
        /\ removedBy[p] = NoThread

(***************************************************************************)
(* C6: CreateIfEmpty on an occupied channel returns false and changes      *)
(* nothing: the step that finds the channel occupied and the return leave  *)
(* the map, every Pomodoro and every goroutine as they are, no Pomodoro is *)
(* started for the call and the callback passed to it is never invoked.    *)
(***************************************************************************)
C6_FailedCreateNoEffect ==
    /\ [][\A t \in Callers :
            (/\ pc[t] = "create_check"
             /\ notify[t].ChannelID \in DOMAIN channelToPom
             /\ pc'[t] # pc[t])
            => /\ pc'[t] = "create_return"
               /\ was'[t] = FALSE
               /\ \A u \in EndThreads : pc'[u] = pc[u]
               /\ UNCHANGED <<channelToPom, pomPc, notifyInfo, onWorkEnd, timerC,
                              cancelChan, cancel, completed, invoked, branch, closes>>]_vars
    /\ [][\A t \in Callers :
            (pc[t] = "create_return" /\ ~was[t] /\ pc'[t] # pc[t])
            => /\ created'[self[t]] = "false"
               /\ \A u \in EndThreads : pc'[u] = pc[u]
               /\ UNCHANGED <<channelToPom, pomPc, notifyInfo, onWorkEnd, timerC,
                              cancelChan, cancel, completed, invoked, branch, closes>>]_vars
    /\ [](\A p \in Poms :
            created[p] = "false"
            => /\ pomPc[p] = "none"
               /\ pc[EndThread(p)] = "unborn"
               /\ Len(invoked[p]) = 0
               /\ \A ch \in DOMAIN channelToPom : channelToPom[ch] # p)

\* A call has returned false while the Pomodoro that occupies its channel is
\* still in the map, waiting and not cancelled.
C6_Witness ==
    \E p, q \in Poms :
        /\ created[p] = "false"
        /\ asked[p].ChannelID \in DOMAIN channelToPom
        /\ channelToPom[asked[p].ChannelID] = q
        /\ pomPc[q] = "select" /\ ~cancel[q]

(***************************************************************************)
(* C7: RemoveIfExists on a channel that is not occupied returns false and  *)
(* changes nothing: the map (other channels included), every Pomodoro, the *)
(* cancel signals and the callbacks invoked stay as they are.              *)
(***************************************************************************)
C7_RemoveAbsentNoEffect ==
    /\ [][\A t \in Threads :
            (/\ pc[t] = "remove_check"
             /\ channel[t] \notin DOMAIN channelToPom
             /\ pc'[t] # pc[t])
            => /\ pc'[t] = "remove_return"
               /\ was'[t] = FALSE
               /\ found'[t] = NoPom
               /\ \A u \in EndThreads \ {t} : pc'[u] = pc[u]
               /\ UNCHANGED <<channelToPom, pomVars, invoked, branch, removedBy, closes>>]_vars
    /\ [][\A t \in Threads :
            (pc[t] = "remove_return" /\ ~was[t] /\ pc'[t] # pc[t])
            => /\ \A u \in EndThreads \ {t} : pc'[u] = pc[u]
               /\ UNCHANGED <<channelToPom, pomVars, invoked, branch, removedBy, closes>>]_vars

\* A caller's RemoveIfExists is about to return false while another channel is occupied.
C7_Witness ==
    \E t \in Callers :
        /\ pc[t] = "remove_return" /\ ~was[t]
        /\ channel[t] \notin DOMAIN channelToPom
        /\ DOMAIN channelToPom # {}

(***************************************************************************)
(* C8, as claimed: whenever a caller's RemoveIfExists has returned true    *)
(* for a Pomodoro, the callback of that Pomodoro is invoked with           *)
(* completed = false.                                                      *)
(***************************************************************************)
C8_Original ==
    \A p \in Poms :
        (CallerGotTrue(p) /\ Len(invoked[p]) > 0) => ~invoked[p][1].completed

(***************************************************************************)
(* C8, amended: whenever a caller's RemoveIfExists has returned true for a *)
(* Pomodoro, the callback of that Pomodoro is invoked afterward (never     *)
(* before the call has returned, and in the end always); completed is      *)
(* false unless the timer of the Pomodoro had fired, and then it may be    *)
(* true.                                                                   *)
(***************************************************************************)
C8_RemovedThenCallback ==
    /\ \A p \in Poms :
          (removedBy[p] = AnyCaller /\ \A t \in Callers : found[t] # p) ~> (Len(invoked[p]) > 0)
    /\ [](\A p \in Poms :
            (removedBy[p] = AnyCaller /\ \E t \in Callers : found[t] = p) => Len(invoked[p]) = 0)
    /\ [](\A p \in Poms :
            (removedBy[p] = AnyCaller /\ Len(invoked[p]) > 0 /\ ~timerC[p])
            => ~invoked[p][1].completed)

\* A caller's RemoveIfExists returned true and the callback has reported false.
C8_Witness ==
    \E p \in Poms : CallerGotTrue(p) /\ Invoked(p) /\ ~invoked[p][1].completed

(***************************************************************************)
(* C9: when the caller's callback of a Pomodoro made by CreateIfEmpty is   *)
(* invoked, and ever after, the Pomodoro is not in the map: doneInMap does *)
(* its removal, holding the mutex, before the callback, and never before   *)
(* the Pomodoro was put into the map.                                      *)
(***************************************************************************)
C9_RemovedBeforeCallback ==
    \A p \in Poms :
        /\ (MadeByCreate(p) /\ pc[EndThread(p)] \in {"callback", "finished"})
              => \A ch \in DOMAIN channelToPom : channelToPom[ch] # p
        /\ Len(invoked[p]) > 0 => \A ch \in DOMAIN channelToPom : channelToPom[ch] # p
        /\ pc[EndThread(p)] \in {"remove_check", "remove_return"} => mutex = EndThread(p)
        /\ (MadeByCreate(p) /\ pc[EndThread(p)] \notin {"unborn", "remove_lock"})
              => created[p] = "true"

\* The callback of a Pomodoro has run, and its channel is occupied again by another one.
C9_Witness ==
    \E p, q \in Poms :
        /\ p # q /\ Invoked(p) /\ created[p] = "true"
        /\ notifyInfo[p].ChannelID \in DOMAIN channelToPom
        /\ channelToPom[notifyInfo[p].ChannelID] = q

(***************************************************************************)
(* C10, as claimed: no channel is occupied by a Pomodoro whose performPom  *)
(* has taken the timer branch or the cancel branch.                        *)
(***************************************************************************)
C10_Original ==
    \A ch \in DOMAIN channelToPom : branch[channelToPom[ch]] = {}

(***************************************************************************)
(* C10, amended: no channel is occupied by a Pomodoro that took the cancel *)
(* branch, nor by one whose doneInMap has done its removal or whose        *)
(* callback was invoked. A Pomodoro that took the timer branch still       *)
(* occupies its channel until its doneInMap has the mutex and removes it.  *)
(***************************************************************************)
C10_OccupantNotPastRemoval ==
    \A ch \in DOMAIN channelToPom :
        /\ "cancel" \notin branch[channelToPom[ch]]
        /\ pc[EndThread(channelToPom[ch])] \in {"unborn", "remove_lock", "remove_check"}
        /\ Len(invoked[channelToPom[ch]]) = 0

\* CreateIfEmpty is about to return false because of a Pomodoro that took the
\* timer branch and is still in the map.
C10_Witness ==
    \E t \in Callers :
        /\ pc[t] = "create_return" /\ ~was[t]
        /\ notify[t].ChannelID \in DOMAIN channelToPom
        /\ branch[channelToPom[notify[t].ChannelID]] = {"timer"}

(***************************************************************************)
(* C11: a CreateIfEmpty on a channel returns true when the callback of a   *)
(* Pomodoro of that channel has been invoked, or a caller's RemoveIfExists *)
(* has returned true for it, and no other CreateIfEmpty on the channel has *)
(* succeeded since. The call is looked at when it has made its decision    *)
(* and still holds the mutex.                                              *)
(***************************************************************************)
C11_CreateAfterCallbackSucceeds ==
    \A t \in Callers :
        pc[t] = "create_return" =>
            \A p \in Poms :
                (/\ p # self[t]
                 /\ created[p] = "true"
                 /\ asked[p].ChannelID = notify[t].ChannelID
                 /\ \/ Len(invoked[p]) > 0
                    \/ removedBy[p] = AnyCaller /\ \A u \in Callers : found[u] # p
                 /\ \A r \in Poms :
                       (r > p /\ r # self[t] /\ asked[r].ChannelID = notify[t].ChannelID)
                           => created[r] # "true")
                => was[t]

\* A CreateIfEmpty is returning true on a channel whose earlier Pomodoro has had
\* its callback invoked.
C11_Witness ==
    \E t \in Callers : \E p \in Poms :
        /\ pc[t] = "create_return" /\ was[t] /\ p # self[t]
        /\ created[p] = "true" /\ asked[p].ChannelID = notify[t].ChannelID
        /\ Len(invoked[p]) > 0

(***************************************************************************)
(* C12, as claimed: when a caller's RemoveIfExists races with the expiry   *)
(* of a Pomodoro (performPom has taken the timer branch), the callback is  *)
(* invoked once at most, one of the two removals deletes the Pomodoro, and *)
(* the other one finds the channel absent, returns false and changes       *)
(* nothing. Here the caller's removal has won, and the removal of the      *)
(* Pomodoro's own doneInMap is the other one.                              *)
(***************************************************************************)
C12_Original ==
    \A p \in Poms :
        ("timer" \in branch[p] /\ removedBy[p] = AnyCaller)
            => /\ Len(invoked[p]) <= 1
               /\ pc[EndThread(p)] = "remove_return"
                     => ~was[EndThread(p)] /\ found[EndThread(p)] = NoPom

(***************************************************************************)
(* C13: Cancel may be called any number of times on a Pomodoro: the cancel *)
(* channel is closed once at most, it is closed exactly when Cancel has    *)
(* been called, and a call that is not the first changes nothing of the    *)
(* Pomodoro, of the map or of the goroutines.                              *)
(***************************************************************************)
C13_CancelIdempotent ==
    /\ [](\A p \in Poms :
            /\ closes[p] <= 1
            /\ cancel[p] <=> closes[p] = 1
            /\ cancel[p] <=> cancelChan[p] = "closed"
            /\ cancel[p] <=> "first" \in cancelCalls[p])
    /\ [][\A p \in Poms :
            (cancel[p] /\ cancelCalls'[p] # cancelCalls[p])
            => UNCHANGED <<mutex, channelToPom, pomVars, thrVars, asked, created,
                           invoked, branch, removedBy, closes>>]_vars

\* Cancel was called again on a Pomodoro that waits in its select with the
\* cancel channel already closed.
C13_Witness ==
    \E p \in Poms :
        /\ "repeat" \in cancelCalls[p]
        /\ closes[p] = 1 /\ cancelChan[p] = "closed" /\ pomPc[p] = "select"

(***************************************************************************)
(* C14: once performPom of a Pomodoro has taken the timer branch, a Cancel *)
(* of it (the one doneInMap's RemoveIfExists makes, or a caller's) brings  *)
(* no second callback and the flag stays completed = true.                 *)
(***************************************************************************)
C14_CancelAfterExpiryNoOp ==
    \A p \in Poms :
        "timer" \in branch[p]
            => /\ branch[p] = {"timer"}
               /\ pomPc[p] = "returned"
               /\ completed[p]
               /\ Len(invoked[p]) <= 1
               /\ \A i \in 1..Len(invoked[p]) : invoked[p][i].completed

\* The callback of a Pomodoro has reported true, and Cancel was called on it after
\* the timer branch was taken: by its own doneInMap, through RemoveIfExists.
C14_Witness ==
    \E p \in Poms :
        /\ removedBy[p] = EndThread(p) /\ cancel[p] /\ cancelChan[p] = "closed"
        /\ branch[p] = {"timer"}
        /\ Len(invoked[p]) = 1 /\ invoked[p][1].completed

(***************************************************************************)
(* C15: the value Count returns is the number of channels in the map while *)
(* Count holds the mutex, from the moment it takes len to its return: it   *)
(* is the number of CreateIfEmpty calls that returned true less the number *)
(* of Pomodoros removed (so N after N successes with nothing removed), and *)
(* a removal counts at once, whether or not the callback has been invoked. *)
(***************************************************************************)
C15_CountIsSnapshot ==
    \A t \in Callers :
        pc[t] = "count_return"
            => /\ count[t] = Cardinality(DOMAIN channelToPom)
               /\ count[t] = Cardinality({p \in Poms : created[p] = "true" /\ removedBy[p] = NoThread})
               /\ (\A p \in Poms : removedBy[p] = NoThread)
                     => count[t] = Cardinality({p \in Poms : created[p] = "true"})

\* Count returns 1 after two CreateIfEmpty calls have succeeded and a caller has
\* removed one of the two Pomodoros, whose callback is not invoked yet.
C15_Witness ==
    \E t \in Callers : \E p, q \in Poms :
        /\ pc[t] = "count_return" /\ count[t] = 1
        /\ p # q /\ created[p] = "true" /\ created[q] = "true"
        /\ removedBy[p] = AnyCaller /\ Len(invoked[p]) = 0
        /\ removedBy[q] = NoThread

(***************************************************************************)
(* C16: whenever the callback of every Pomodoro that CreateIfEmpty has     *)
(* made so far has been invoked, the map is empty and a Count that is      *)
(* returning returns 0.                                                    *)
(***************************************************************************)
C16_AllDoneMapEmpty ==
    (\A p \in Poms : onWorkEnd[p] = "doneInMap" => Len(invoked[p]) > 0)
        => /\ DOMAIN channelToPom = {}
           /\ \A t \in Callers : pc[t] = "count_return" => count[t] = 0

\* Two Pomodoros were made by CreateIfEmpty, one has expired and one was removed,
\* both callbacks have been invoked and Count is returning 0.
C16_Witness ==
    /\ \A p \in Poms : onWorkEnd[p] = "doneInMap" /\ Len(invoked[p]) > 0
    /\ \E p, q \in Poms : invoked[p][1].completed /\ ~invoked[q][1].completed
    /\ \E t \in Callers : pc[t] = "count_return" /\ count[t] = 0

(***************************************************************************)
(* C17: the NotifyInfo given to the callback of a Pomodoro made by         *)
(* CreateIfEmpty is the one passed to the CreateIfEmpty call that made it  *)
(* (a call that returned true); it is not that of another Pomodoro nor     *)
(* that of a failed call on the channel.                                   *)
(***************************************************************************)
C17_PayloadVerbatim ==
    \A p \in Poms : \A i \in 1..Len(invoked[p]) :
        onWorkEnd[p] = "doneInMap"
            => /\ invoked[p][i].info = asked[p]
               /\ created[p] = "true"
               /\ \A q \in Poms \ {p} : asked[q] # NoInfo => invoked[p][i].info # asked[q]

\* The callback of a Pomodoro was invoked with its NotifyInfo, after a CreateIfEmpty
\* with another NotifyInfo had failed on the same channel.
C17_Witness ==
    \E p, q \in Poms :
        /\ created[p] = "true" /\ created[q] = "false"
        /\ asked[p].ChannelID = asked[q].ChannelID /\ asked[p] # asked[q]
        /\ Len(invoked[p]) = 1 /\ invoked[p][1].info = asked[p]

(***************************************************************************)
(* C18: a step of CreateIfEmpty or RemoveIfExists on a channel leaves the  *)
(* other channels as they are: the occupant of a channel changes, and a    *)
(* Pomodoro of a channel is cancelled, only in the insertion of a          *)
(* CreateIfEmpty or the removal of a RemoveIfExists on that very channel.  *)
(* A CreateIfEmpty fails only after an earlier one on the same channel has *)
(* succeeded, so calls on two channels nobody has used both return true.   *)
(***************************************************************************)
C18_OtherKeysUntouched ==
    /\ [][\A k \in Channels :
            (\/ (k \in DOMAIN channelToPom) # (k \in DOMAIN channelToPom')
             \/ /\ k \in DOMAIN channelToPom /\ k \in DOMAIN channelToPom'
                /\ channelToPom'[k] # channelToPom[k]
             \/ \E p \in Poms : notifyInfo[p].ChannelID = k /\ cancel'[p] # cancel[p])
            => \E t \in Threads :
                  /\ pc'[t] # pc[t]
                  /\ \/ pc[t] = "create_insert" /\ notify[t].ChannelID = k
                     \/ pc[t] = "remove_check" /\ channel[t] = k]_vars
    /\ [](\A q \in Poms :
            created[q] = "false"
            => \E p \in Poms :
                  p < q /\ created[p] = "true" /\ asked[p].ChannelID = asked[q].ChannelID)

\* CreateIfEmpty has returned true on both channels, and the Pomodoro of one was
\* removed while the other one is in the map, waiting and not cancelled.
C18_Witness ==
    \E p, q \in Poms :
        /\ created[p] = "true" /\ created[q] = "true"
        /\ asked[p].ChannelID # asked[q].ChannelID
        /\ removedBy[p] # NoThread
        /\ asked[q].ChannelID \in DOMAIN channelToPom
        /\ channelToPom[asked[q].ChannelID] = q
        /\ ~cancel[q] /\ pomPc[q] = "select"

(***************************************************************************)
(* C19: with the steps of the map's operations alone being fair (nothing   *)
(* asked of timers, of performPom or of callbacks), every CreateIfEmpty,   *)
(* RemoveIfExists and Count that has the mutex returns, and doneInMap's    *)
(* RemoveIfExists gets the mutex and returns. The mutex is held only by a  *)
(* goroutine inside one of these operations, never on behalf of a          *)
(* Pomodoro whose performPom still waits in its select.                    *)
(***************************************************************************)
C19_RegistryOpsTerminate ==
    /\ \A t \in Callers : (pc[t] # "idle") ~> (pc[t] = "idle")
    /\ \A p \in Poms : (pc[EndThread(p)] = "remove_lock") ~> (pc[EndThread(p)] = "callback")
    /\ [](mutex # NoThread
            => pc[mutex] \in {"create_check", "create_insert", "create_return",
                              "remove_check", "remove_return", "count_return"})
    /\ [](\A p \in Poms : pomPc[p] = "select" => mutex # EndThread(p))

\* CreateIfEmpty has returned true and no operation is running, while the Pomodoro
\* it made still waits: timer not fired, not cancelled.
C19_Witness ==
    \E p \in Poms :
        /\ created[p] = "true" /\ pomPc[p] = "select" /\ ~timerC[p] /\ ~cancel[p]
        /\ mutex = NoThread
        /\ \A t \in Callers : pc[t] = "idle"

(***************************************************************************)
(* C20: a Pomodoro is removed by a successful RemoveIfExists once at most. *)
(* A RemoveIfExists that returns true has found a Pomodoro of its channel  *)
(* that no RemoveIfExists had found before, made by a CreateIfEmpty that   *)
(* succeeded after every earlier removal on the channel; with no such      *)
(* CreateIfEmpty, the RemoveIfExists after a successful one returns false. *)
(***************************************************************************)
C20_RemovedAtMostOnce ==
    /\ [][\A p \in Poms : removedBy[p] # NoThread => removedBy'[p] = removedBy[p]]_vars
    /\ [][\A t \in Threads :
            (/\ pc[t] = "remove_check" /\ pc'[t] = "remove_return"
             /\ \E p \in Poms :
                   /\ asked[p].ChannelID = channel[t]
                   /\ removedBy[p] # NoThread
                   /\ \A q \in Poms :
                         (q > p /\ asked[q].ChannelID = channel[t]) => created[q] # "true")
            => ~was'[t] /\ found'[t] = NoPom]_vars
    /\ [](\A t \in Threads :
            (pc[t] = "remove_return" /\ was[t])
            => /\ found[t] \in Poms
               /\ asked[found[t]].ChannelID = channel[t]
               /\ created[found[t]] = "true")

\* A caller's RemoveIfExists is returning false on a channel whose Pomodoro a
\* caller's RemoveIfExists has removed before.
C20_Witness ==
    \E t \in Callers : \E p \in Poms :
        /\ pc[t] = "remove_return" /\ ~was[t]
        /\ removedBy[p] = AnyCaller /\ asked[p].ChannelID = channel[t]

(***************************************************************************)
(* The bot's claims are checked under BotSpec.                             *)
(***************************************************************************)
\* onPomEnded is running for p: from its call at the end of doneInMap to its return.
InOnPomEnded(p) == pc[EndThread(p)] \in {"count_lock", "count_return", "record_running"}
\* p is at rest: registered and untouched, or wholly over (onPomEnded has returned).
AtRest(p) ==
    \/ pomPc[p] = "none"
    \/ p \in InMap /\ pc[EndThread(p)] = "unborn" /\ ~cancel[p]
    \/ pc[EndThread(p)] = "finished"

(***************************************************************************)
(* C21: pomodoros_running is the number of running Pomodoros: whenever no  *)
(* start-command handler and no onPomEnded is in the middle of executing,  *)
(* the last value given to RecordRunningPoms is the number of channels in  *)
(* the map. It is stated here in the way most generous to the code: also   *)
(* every Pomodoro that has left the map must have had its onPomEnded       *)
(* return. The code breaks it even so: Count() and RecordRunningPoms are   *)
(* two steps, and the value of an earlier Count() can be recorded after    *)
(* the value of a later one.                                               *)
(***************************************************************************)
C21_Original ==
    (/\ runningPoms # NoValue
     /\ \A t \in Callers : handler[t] # "onCmdStartPom"
     /\ \A p \in Poms : ~InOnPomEnded(p) /\ AtRest(p))
        => runningPoms = Cardinality(DOMAIN channelToPom)

(***************************************************************************)
(* C22: the RemoveIfExists that doneInMap calls never triggers a callback: *)
(* the Cancel it issues hits a Pomodoro whose performPom has returned, so  *)
(* no Pomodoro removed by a doneInMap takes the cancel branch. (The        *)
(* comment in doneInMap says so.) The code breaks it: doneInMap removes by *)
(* channel, and the channel may hold a newer Pomodoro by then.             *)
(***************************************************************************)
C22_Original ==
    /\ \A p \in Poms :
          (pc[EndThread(p)] = "remove_return" /\ found[EndThread(p)] # NoPom)
              => pomPc[found[EndThread(p)]] = "returned"
    /\ \A q \in Poms : removedBy[q] \in EndThreads => "cancel" \notin branch[q]

(***************************************************************************)
(* C23: a Pomodoro is never removed or cancelled by the completion         *)
(* handling of another Pomodoro: one that a doneInMap removed was removed  *)
(* by its own, and every callback invoked with completed = false is of a   *)
(* Pomodoro for which a caller's RemoveIfExists returned true. The code    *)
(* breaks it when a channel is removed and created again before the        *)
(* earlier Pomodoro's doneInMap has run.                                   *)
(***************************************************************************)
C23_Original ==
    \A q \in Poms :
        /\ removedBy[q] \notin {NoThread, AnyCaller} => removedBy[q] = EndThread(q)
        /\ \A i \in 1..Len(invoked[q]) :
              (onWorkEnd[q] = "doneInMap" /\ ~invoked[q][i].completed)
                  => (removedBy[q] = AnyCaller /\ \A t \in Callers : found[t] # q)

(***************************************************************************)
(* C24: in every state, no Pomodoro that is in the map has had Cancel      *)
(* requested: RemoveIfExists deletes the entry and calls Cancel in one     *)
(* critical section, and nothing else calls Cancel on a Pomodoro of the    *)
(* map (CreateIfEmpty does not hand it out).                               *)
(***************************************************************************)
C24_RegisteredNotCancelled ==
    \A ch \in DOMAIN channelToPom :
        /\ ~cancel[channelToPom[ch]]
        /\ cancelChan[channelToPom[ch]] = "open"
        /\ cancelCalls[channelToPom[ch]] = {}

\* A channel whose earlier Pomodoro was removed and cancelled holds a newer one.
C24_Witness ==
    \E p, q \in Poms :
        /\ p # q /\ q \in InMap /\ cancel[p] /\ p \notin InMap
        /\ notifyInfo[p].ChannelID = notifyInfo[q].ChannelID

\* The next step of goroutine t in the bot, whatever it is.
StepOf(t) ==
    \/ CreateCheck(t) \/ CreateInsert(t) \/ CreateReturn(t)
    \/ StartPomExists(t) \/ StartPomCreated(t)
    \/ RemoveCheck(t) \/ RemoveReturn(t)
    \/ CancelPomRemoved(t) \/ CancelPomMissing(t)
    \/ HandlerCount(t) \/ CountReturn(t) \/ RecordRunningPoms(t)
    \/ \E p \in Poms : t = EndThread(p) /\ (DoneInMapLock(p) \/ OnPomEnded(p))

(***************************************************************************)
(* C25: the caller's callback is invoked while its goroutine does not hold *)
(* the mutex, so a callback that calls into the map (onPomEnded calls      *)
(* Count) does not deadlock, and no state is a deadlock: no goroutine      *)
(* waits for a mutex it holds, the holder of the mutex can always take its *)
(* next step, and every goroutine that is in the middle of something can   *)
(* take a step or waits for a mutex whose holder can. The timer may fire   *)
(* as soon as the Pomodoro is made (a duration of zero).                   *)
(***************************************************************************)
C25_CallbackWithoutMutex ==
    /\ \A p \in Poms :
          pc[EndThread(p)] \in {"callback", "count_lock", "record_running", "finished"}
              => mutex # EndThread(p)
    /\ \A t \in Threads : pc[t] \in {"remove_lock", "count_lock"} => mutex # t
    /\ \A t \in Threads : mutex = t => ENABLED StepOf(t)
    /\ \A t \in Threads :
          pc[t] \notin {"idle", "unborn", "finished"}
              => \/ ENABLED StepOf(t)
                 \/ /\ pc[t] \in {"remove_lock", "count_lock"}
                    /\ mutex \in Threads \ {t}
                    /\ ENABLED StepOf(mutex)
    /\ \A p \in Poms : pomPc[p] = "select" =>
          ENABLED (TimerFires(p) \/ SelectTimer(p) \/ SelectCancel(p))

\* onPomEnded of one Pomodoro is inside Count, holding the mutex, while the
\* doneInMap or the onPomEnded of another one waits for it.
C25_Witness ==
    \E p, q \in Poms :
        /\ p # q
        /\ pc[EndThread(p)] = "count_return" /\ mutex = EndThread(p)
        /\ Len(invoked[p]) = 1
        /\ pc[EndThread(q)] \in {"remove_lock", "count_lock"}

\* A Pomodoro whose timer fired at once: its doneInMap waits for the mutex that
\* the CreateIfEmpty which is making it still holds.
C25_ZeroDuration ==
    \E p \in Poms : created[p] = "pending" /\ pc[EndThread(p)] = "remove_lock"

(***************************************************************************)
(* C26: under the fairness of FairSpec, every Pomodoro that is in the map  *)
(* leaves it again, removed as that same Pomodoro: by a caller's           *)
(* RemoveIfExists or by its own doneInMap after its timer branch; and no   *)
(* Pomodoro whose callback has run is in the map. The code breaks the      *)
(* middle part: a Pomodoro can be removed by the doneInMap of an earlier   *)
(* Pomodoro of its channel.                                                *)
(***************************************************************************)
C26_Original ==
    /\ \A p \in Poms : (p \in InMap) ~> (p \notin InMap)
    /\ [](\A p \in Poms :
            (removedBy[p] # NoThread /\ p \notin InMap)
                => \/ removedBy[p] = AnyCaller
                   \/ removedBy[p] = EndThread(p) /\ "timer" \in branch[p])
    /\ [](\A p \in Poms : Len(invoked[p]) > 0 => p \notin InMap)

(***************************************************************************)
(* C27: when a cancel command and the expiry of a Pomodoro race, the bot   *)
(* sends exactly one end notification for the Pomodoro, "Pomodoro          *)
(* cancelled!" or the work-cycle-complete message: never two, and never    *)
(* none (once performPom has taken a branch, either the notification has   *)
(* been sent or the goroutine that sends it is on its way to onPomEnded;   *)
(* C25 has that it gets there). The text goes by the branch taken. A       *)
(* cancel command whose RemoveIfExists returns false sends "No Pomodoro    *)
(* running on this channel to cancel." and cancels nothing; one whose      *)
(* RemoveIfExists returns true sends nothing itself.                       *)
(***************************************************************************)
C27_OneEndNotification ==
    /\ [](\A p \in Poms :
            /\ Len(notified[p]) <= 1
            /\ branch[p] # {} =>
                  Len(notified[p]) +
                  (IF pc[EndThread(p)] \in {"remove_lock", "remove_check", "remove_return", "callback"}
                   THEN 1 ELSE 0) = 1
            /\ branch[p] = {} => notified[p] = << >> /\ pc[EndThread(p)] = "unborn"
            /\ Len(notified[p]) = 1 =>
                  notified[p][1] = (IF "timer" \in branch[p] THEN MsgComplete ELSE MsgCancelled))
    /\ [][\A t \in Callers :
            (handler[t] = "onCmdCancelPom" /\ pc[t] = "remove_return" /\ pc'[t] # pc[t])
                => pc'[t] = (IF was[t] THEN "cancel_removed" ELSE "cancel_missing")]_vars
    /\ [][\A t \in Callers :
            (pc[t] = "cancel_missing" /\ pc'[t] # pc[t])
                => /\ discord' = <<mChannel[t], MsgNoPom>>
                   /\ UNCHANGED <<notified, cancel, channelToPom>>]_vars
    /\ [][\A t \in Callers :
            (pc[t] = "cancel_removed" /\ pc'[t] # pc[t]) => UNCHANGED <<discord, notified>>]_vars
    /\ [][\A t \in Callers :
            (handler[t] = "onCmdCancelPom" /\ pc[t] = "remove_check" /\ ~was'[t])
                => UNCHANGED <<cancel, channelToPom>>]_vars

\* The race: the timer of a Pomodoro had fired when a cancel command removed it
\* (its RemoveIfExists returned true); the bot sent the work-cycle-complete
\* message for it and nothing else, and a second cancel command on the channel
\* has just been answered "No Pomodoro running on this channel to cancel."
C27_Witness ==
    \E p \in Poms :
        /\ timerC[p] /\ cancel[p] /\ removedBy[p] = AnyCaller
        /\ notified[p] = <<MsgComplete>>
        /\ discord = <<notifyInfo[p].ChannelID, MsgNoPom>>

(***************************************************************************)
(* C28: a start command on a channel that has a Pomodoro starts no second  *)
(* one, leaves the running one as it is, answers "A Pomodoro is already    *)
(* running on this channel." and does not record pomodoros_started;        *)
(* RecordStartPom is called once for every CreateIfEmpty that returned     *)
(* true, so pomodoros_started is the number of successful creations (less  *)
(* the handlers that are between the return and the call).                 *)
(***************************************************************************)
C28_StartedCountsCreations ==
    /\ [](startedPoms + Cardinality({t \in Callers : pc[t] = "start_created"})
              = Cardinality({p \in Poms : created[p] = "true"}))
    /\ [](\A p \in Poms : created[p] = "false" =>
              pomPc[p] = "none" /\ p \notin InMap /\ invoked[p] = << >>)
    /\ [][\A t \in Callers :
            (handler[t] = "onCmdStartPom" /\ pc[t] = "create_check"
                /\ notify[t].ChannelID \in DOMAIN channelToPom /\ pc'[t] # pc[t])
                => /\ ~was'[t]
                   /\ UNCHANGED <<channelToPom, pomVars, startedPoms, runningPoms>>]_vars
    /\ [][\A t \in Callers :
            (handler[t] = "onCmdStartPom" /\ pc[t] = "create_return" /\ ~was[t] /\ pc'[t] # pc[t])
                => /\ pc'[t] = "start_exists"
                   /\ UNCHANGED <<channelToPom, pomVars, startedPoms, runningPoms>>]_vars
    /\ [][\A t \in Callers :
            (pc[t] = "start_exists" /\ pc'[t] # pc[t])
                => /\ discord' = <<mChannel[t], MsgAlready>>
                   /\ pc'[t] = "idle"
                   /\ UNCHANGED <<channelToPom, pomVars, startedPoms, runningPoms>>]_vars
    /\ [][startedPoms' # startedPoms =>
            /\ startedPoms' = startedPoms + 1
            /\ \E t \in Callers : pc[t] = "start_created" /\ pc'[t] # pc[t]]_vars

\* Two start commands on one channel have been served: the first Pomodoro runs
\* untouched, the second command was answered "already running", and
\* pomodoros_started is 1.
C28_Witness ==
    \E p, q \in Poms :
        /\ asked[p].ChannelID = asked[q].ChannelID
        /\ created[p] = "true" /\ created[q] = "false"
        /\ p \in InMap /\ ~cancel[p] /\ ~timerC[p]
        /\ startedPoms = 1
        /\ discord = <<asked[q].ChannelID, MsgAlready>>
        /\ \A t \in Callers : pc[t] = "idle"

(***************************************************************************)
(* C29: a Pomodoro has one performPom, started by NewPomodoro when the     *)
(* Pomodoro is made; nothing starts a second one, and once it has taken a  *)
(* branch the Pomodoro does not change again: performPom stays returned,   *)
(* the branch and the flag it passed stay, and the goroutine it started    *)
(* for onWorkEnd is never started again. (Running -> Finished; a Cancel    *)
(* that comes later closes cancelChan and nothing receives from it.)       *)
(***************************************************************************)
C29_OnePerformPom ==
    /\ [][\A p \in Poms :
            /\ (pomPc[p] = "none" /\ pomPc'[p] # "none")
                  => pomPc'[p] = "select" /\ onWorkEnd[p] = "none" /\ onWorkEnd'[p] # "none"
            /\ pomPc[p] = "select" => pomPc'[p] \in {"select", "returned"}
            /\ pomPc[p] = "returned"
                  => /\ pomPc'[p] = "returned"
                     /\ branch'[p] = branch[p]
                     /\ completed'[p] = completed[p]
                     /\ timerC'[p] = timerC[p]
                     /\ pc'[EndThread(p)] \notin {"unborn"}
                     /\ pc'[EndThread(p)] = "remove_lock" => pc[EndThread(p)] = "remove_lock"
            /\ pomPc[p] # "none"
                  => onWorkEnd'[p] = onWorkEnd[p] /\ notifyInfo'[p] = notifyInfo[p]]_vars
    /\ [](\A p \in Poms :
            /\ Cardinality(branch[p]) <= 1
            /\ pomPc[p] = "returned" <=> branch[p] # {}
            /\ pomPc[p] # "returned" => pc[EndThread(p)] = "unborn")

\* Two Pomodoros are finished, one by its timer and one by a cancellation; the
\* first had Cancel called on it after it had finished.
C29_Witness ==
    \E p, q \in Poms :
        /\ pomPc[p] = "returned" /\ branch[p] = {"timer"} /\ cancel[p]
        /\ pomPc[q] = "returned" /\ branch[q] = {"cancel"}
        /\ pc[EndThread(p)] = "finished" /\ pc[EndThread(q)] = "finished"
====
